---- MODULE Spec2Model ----
(***************************************************************************)
(* Model of mysql-easy (src/lib/mysql-easy.js): the MySQLEasy client, its  *)
(* statement methods, and the Transaction handle created from a pool.      *)
(*                                                                         *)
(* Objects are numbered: 0 is the MySQLEasy client wrapping the pool,      *)
(* h in 1..MaxTx is the Transaction produced by the h-th call of           *)
(* createTransaction.  The mysql driver is the environment: it answers     *)
(* every callback it was given exactly once, at any later time, with or    *)
(* without an error.                                                       *)
(***************************************************************************)
EXTENDS Integers, Sequences, FiniteSets, TLC

VARIABLES
    connState,   \* pool side: each connection is "free", "leased" or "destroyed"
    txs,         \* createTransaction calls: position in the callback chain
    status,      \* Transaction.status of each handle
    hconn,       \* this._conn of each object ("pool", a connection, or "null")
    profiling,   \* this._profiling of each object, as "is a hook configured"
    pend,        \* driver callbacks (commit / rollback) not yet answered
    log,         \* per handle: what its closures asked of the connection and what
                 \* the driver answered, in order
    calls,       \* commit() / rollback() calls and the promise each returned
    stmts,       \* statement calls: dispatch, promise, profiling timer
    input        \* the method and arguments of the statement calls of this run

vars == <<connState, txs, status, hconn, profiling, pend, log, calls, stmts, input>>

----------------------------------------------------------------------------
(* Bounds *)

MaxTx    == 1    \* createTransaction calls
NumConns == 2    \* connections the pool can hand out
MaxCalls == 2    \* commit() and rollback() calls, all handles together
MaxStmts == 1    \* statement calls, all objects together
MaxRows  == 1    \* rows in a result of the driver
MaxNest  == 2    \* nesting depth of the $or / $and of a where

ConnName(i) == "c" \o ToString(i)
Conns   == {ConnName(i) : i \in 1..NumConns}
Handles == 1..MaxTx
Objects == 0..MaxTx
Pool    == 0

Statuses == {"pending", "committing", "committed", "rejected"}

----------------------------------------------------------------------------
(* JavaScript values, as far as the statement methods inspect them *)

Undef    == [t |-> "undefined"]
Null     == [t |-> "null"]
Str(s)   == [t |-> "string", s |-> s]
Num(n)   == [t |-> "number", n |-> n]
Bool(b)  == [t |-> "boolean", b |-> b]
Arr(a)   == [t |-> "array", a |-> a]      \* a: sequence of values
Obj(e)   == [t |-> "object", e |-> e]     \* e: sequence of <<key, value>>, insertion order

\* typeof
TypeOf(v) == IF v.t \in {"null", "array", "object"} THEN "object" ELSE v.t

\* v == null
IsNullish(v) == v.t \in {"undefined", "null"}

\* ToBoolean
Truthy(v) ==
    CASE v.t \in {"undefined", "null"} -> FALSE
      [] v.t = "string"  -> v.s # ""
      [] v.t = "number"  -> v.n # 0
      [] v.t = "boolean" -> v.b
      [] OTHER           -> TRUE

\* for (name in v) with hasOwnProperty: own enumerable entries of an object or array
Entries(v) ==
    CASE v.t = "object" -> v.e
      [] v.t = "array"  -> [i \in 1..Len(v.a) |-> <<ToString(i - 1), v.a[i]>>]
      [] OTHER          -> << >>

\* v[k] for a non-nullish v (own properties only)
Get(v, k) ==
    LET es == Entries(v)
        hit == {i \in 1..Len(es) : es[i][1] = k}
    IN  IF hit = {} THEN Undef ELSE es[CHOOSE i \in hit : TRUE][2]

\* a || b
OrElse(a, b) == IF Truthy(a) THEN a ELSE b

RECURSIVE JoinStr(_, _)
\* Array.prototype.join on strings
JoinStr(ss, sep) ==
    IF Len(ss) = 0 THEN ""
    ELSE IF Len(ss) = 1 THEN ss[1]
    ELSE ss[1] \o sep \o JoinStr(Tail(ss), sep)

RECURSIVE ToStr(_)
\* String(v), as template literals and + apply it
ToStr(v) ==
    CASE v.t = "string"  -> v.s
      [] v.t = "number"  -> ToString(v.n)
      [] v.t = "boolean" -> IF v.b THEN "true" ELSE "false"
      [] v.t = "array"   -> JoinStr([i \in 1..Len(v.a) |->
                                IF IsNullish(v.a[i]) THEN "" ELSE ToStr(v.a[i])], ",")
      [] v.t = "object"  -> "[object Object]"
      [] OTHER           -> v.t

----------------------------------------------------------------------------
(* mysql.escapeId / mysql.escape, the driver's escaping primitives *)

\* The backquote cannot be written inside a TLA+ string; "#" stands for it.
BackQuote == "#"

RECURSIVE Replace(_, _, _)
\* s.replace(/c/g, by) for a one-character c
Replace(s, c, by) ==
    IF Len(s) = 0 THEN ""
    ELSE (IF SubSeq(s, 1, 1) = c THEN by ELSE SubSeq(s, 1, 1))
            \o Replace(SubSeq(s, 2, Len(s)), c, by)

RECURSIVE iden(_)
iden(v) ==
    IF v.t = "array"
        THEN JoinStr([i \in 1..Len(v.a) |-> iden(v.a[i])], ", ")
        ELSE BackQuote
               \o Replace(Replace(ToStr(v), BackQuote, BackQuote \o BackQuote),
                          ".", BackQuote \o "." \o BackQuote)
               \o BackQuote

EscapeString(s) ==
    "'" \o Replace(Replace(Replace(s, "\\", "\\\\"), "'", "\\'"), "\"", "\\\"") \o "'"

RECURSIVE val(_)
val(v) ==
    CASE IsNullish(v)    -> "NULL"
      [] v.t = "boolean" -> ToStr(v)
      [] v.t = "number"  -> ToStr(v)
      [] v.t = "string"  -> EscapeString(v.s)
      [] v.t = "array"   -> JoinStr([i \in 1..Len(v.a) |->
                                IF v.a[i].t = "array" THEN "(" \o val(v.a[i]) \o ")"
                                                      ELSE val(v.a[i])], ", ")
      [] OTHER           -> JoinStr([i \in 1..Len(v.e) |->
                                iden(Str(v.e[i][1])) \o " = " \o val(v.e[i][2])], ", ")

----------------------------------------------------------------------------
(* Results of the compiling functions: SQL text, or the error thrown *)

Ok(sql)  == [err |-> "none", sql |-> sql]
Err(msg) == [err |-> msg, sql |-> ""]
TypeError == Err("TypeError")

\* the first error of a sequence of results, in evaluation order
FirstErr(rs) ==
    LET bad == {i \in 1..Len(rs) : rs[i].err # "none"}
    IN  IF bad = {} THEN "none"
        ELSE rs[CHOOSE i \in bad : \A j \in bad : i <= j].err

\* rs.join(sep), or the first error thrown while the parts were built
JoinOk(rs, sep) ==
    IF FirstErr(rs) # "none" THEN Err(FirstErr(rs))
    ELSE Ok(JoinStr([i \in 1..Len(rs) |-> rs[i].sql], sep))

----------------------------------------------------------------------------
(* The compiling functions *)

\* the first own property of an object table gives "physical AS alias"; an
\* object without one gives undefined, which joins as the empty string
getTable(table) ==
    LET isObject == TypeOf(table) = "object"
        es       == Entries(table)
    IN  IF isObject /\ Len(es) = 0 THEN ""
        ELSE iden(IF isObject THEN es[1][2] ELSE table)
               \o (IF isObject THEN " AS " \o iden(Str(es[1][1])) ELSE "")

formatValue(data, isIdenPriority) ==
    LET Directive(tag) == ~IsNullish(data) /\ Truthy(Get(data, tag))
        isRaw   == Directive("$raw")
        isVal   == ~isRaw /\ Directive("$val")
        isField == ~isRaw /\ ~isVal /\ Directive("$field")
        plain   == ~isRaw /\ ~isVal /\ ~isField
    IN  IF isRaw THEN ToStr(Get(data, "$raw"))
        ELSE IF isField \/ (plain /\ isIdenPriority)
            THEN iden(IF isField THEN Get(data, "$field") ELSE data)
        ELSE val(IF isVal THEN Get(data, "$val") ELSE data)

Aggregations == <<"$count", "$avg", "$min", "$max", "$sum">>
AggregName(tag) ==
    CASE tag = "$count" -> "COUNT" [] tag = "$avg" -> "AVG" [] tag = "$min" -> "MIN"
      [] tag = "$max" -> "MAX" [] OTHER -> "SUM"

\* one entry of the loop of getFields
FieldEntry(fieldName, value) ==
    IF TypeOf(value) = "object"
        THEN IF value.t = "null" THEN TypeError
             ELSE LET present == {i \in 1..Len(Aggregations) :
                                      Get(value, Aggregations[i]).t # "undefined"}
                      first   == CHOOSE i \in present : \A j \in present : i <= j
                  IN  IF present = {} THEN Err("Bad field description")
                      ELSE Ok(AggregName(Aggregations[first]) \o "("
                                \o formatValue(Get(value, Aggregations[first]), TRUE)
                                \o ") AS " \o iden(Str(fieldName)))
        ELSE Ok(iden(value) \o " AS " \o iden(Str(fieldName)))

getFields(fields) ==
    IF fields.t = "null" THEN Err("Parameter \"fields\" must be not null")
    ELSE IF fields.t = "undefined" THEN Ok("*")
    ELSE IF fields.t = "string" THEN Ok(fields.s)
    ELSE IF fields.t = "array"
        THEN Ok(JoinStr([i \in 1..Len(fields.a) |-> iden(fields.a[i])], ","))
    ELSE IF fields.t = "object"
        THEN JoinOk([i \in 1..Len(fields.e) |-> FieldEntry(fields.e[i][1], fields.e[i][2])], ",")
    ELSE Err("Invalid arguments")

Operators == <<"$like", "$eq", "$gt", "$gte", "$lt", "$lte", "$in", "$is", "$isNot">>

OperatorKeyword(tag) ==
    CASE tag = "$like" -> " LIKE " [] tag = "$eq" -> " = " [] tag = "$gt" -> " > "
      [] tag = "$gte" -> " >= " [] tag = "$lt" -> " < " [] tag = "$lte" -> " <= "
      [] tag = "$in" -> " IN (" [] tag = "$is" -> " IS " [] OTHER -> " IS NOT "

\* the fragment pushed for one operator tag that is present
OperatorFragment(escapedField, tag, operand) ==
    IF tag = "$eq" /\ operand.t = "null" THEN escapedField \o " IS NULL"
    ELSE escapedField \o OperatorKeyword(tag) \o formatValue(operand, FALSE)
            \o (IF tag = "$in" THEN ")" ELSE "")

IsPresent(data, tag) == Get(data, tag).t # "undefined"

\* variant: a mapping without a recognised operator is compared as a value
WhereConditionNoExhaustion(escapedField, data, isJoinOn) ==
    IF data.t = "null"
        THEN IF isJoinOn THEN Err("Bad join on option")
             ELSE Ok(escapedField \o " IS NULL")
    ELSE IF TypeOf(data) = "object"
        THEN IF IsPresent(data, "$field")
                THEN Ok(escapedField \o " = " \o formatValue(data, FALSE))
             ELSE LET tags == SelectSeq(Operators, LAMBDA tag : IsPresent(data, tag))
                  IN  IF Len(tags) = 0
                         THEN Ok(escapedField \o " = " \o formatValue(data, isJoinOn))
                      ELSE Ok(JoinStr([i \in 1..Len(tags) |->
                                 OperatorFragment(escapedField, tags[i], Get(data, tags[i]))],
                                 " AND "))
    ELSE Ok(escapedField \o " = " \o (IF isJoinOn THEN iden(data) ELSE val(data)))

\* the condition pushed for one field of the where mapping
WhereCondition(escapedField, data, isJoinOn) ==
    IF data.t = "null"
        THEN IF isJoinOn THEN Err("Bad join on option")
             ELSE Ok(escapedField \o " IS NULL")
    ELSE IF TypeOf(data) = "object"
        THEN IF IsPresent(data, "$field")
                THEN Ok(escapedField \o " = " \o formatValue(data, FALSE))
             ELSE LET tags == SelectSeq(Operators, LAMBDA tag : IsPresent(data, tag))
                  IN  IF Len(tags) = 0
                         THEN Err("Where object has not contains any of $like,$eq,$gt,$gte,$lt,$lte,$in,$is,$isNot")
                      ELSE Ok(JoinStr([i \in 1..Len(tags) |->
                                 OperatorFragment(escapedField, tags[i], Get(data, tags[i]))],
                                 " AND "))
    ELSE Ok(escapedField \o " = " \o (IF isJoinOn THEN iden(data) ELSE val(data)))

\* one entry of the field loop of getWhere
WhereEntry(fieldName, data, isJoinOn) ==
    WhereCondition(iden(Str(fieldName)), data, isJoinOn)

\* variant: a combinator renders its operands without parentheses
GroupBare(sql) == sql

\* the template literal (${...}) around the joined operands of $or / $and
Group(sql) == "(" \o sql \o ")"

RECURSIVE getWhere(_, _, _)
getWhere(where, isRequired, isJoinOn) ==
    IF IsNullish(where)
        THEN IF isRequired THEN Err("Parameter \"where\" must be not null") ELSE Ok("")
    ELSE IF where.t = "string" THEN Ok(where.s)
    ELSE IF TypeOf(where) = "object"
        THEN LET isOr     == Get(where, "$or").t # "undefined"
                 isAnd    == ~isOr /\ Get(where, "$and").t # "undefined"
                 operands == Get(where, IF isOr THEN "$or" ELSE "$and")
                 es       == Entries(where)
             IN  IF isOr \/ isAnd
                    THEN IF operands.t # "array" THEN TypeError
                         ELSE LET r == JoinOk([i \in 1..Len(operands.a) |->
                                                  getWhere(operands.a[i], TRUE, isJoinOn)],
                                              IF isOr THEN " OR " ELSE " AND ")
                              IN  IF r.err # "none" THEN r ELSE Ok(Group(r.sql))
                    ELSE JoinOk([i \in 1..Len(es) |-> WhereEntry(es[i][1], es[i][2], isJoinOn)],
                                " AND ")
    ELSE Err("Invalid arguments")

getJoin(join) ==
    IF join.t = "string" THEN Ok(join.s)
    ELSE IF IsNullish(join) THEN TypeError
    ELSE IF ~Truthy(Get(join, "on")) THEN Err("Join has not field \"on\"")
    ELSE LET type == Get(join, "type")
             Is(s) == type.t = "string" /\ type.s = s
             kw   == IF Is("left") THEN <<Ok("LEFT")>>
                     ELSE IF Is("right") THEN <<Ok("RIGHT")>>
                     ELSE IF Is("FULL") THEN <<Ok("FULL")>>
                     ELSE << >>
         IN  JoinOk(kw \o <<Ok("JOIN"), Ok(getTable(Get(join, "table"))), Ok("ON"),
                            getWhere(Get(join, "on"), TRUE, TRUE)>>, " ")

getJoins(joins) ==
    LET js == IF joins.t = "array" THEN joins.a ELSE <<joins>>
    IN  JoinOk([i \in 1..Len(js) |-> getJoin(js[i])], " ")

\* the right-hand side of one assignment of getSetValues
SetValue(value, isUpdate) ==
    IF ~Truthy(value) THEN val(value)
    ELSE IF Truthy(Get(value, "$raw")) THEN ToStr(Get(value, "$raw"))
    ELSE IF Truthy(Get(value, "$point"))
        THEN LET pt == Get(value, "$point")
             IN  IF pt.t = "array"
                    THEN "POINT(" \o ToStr(Get(pt, "0")) \o "," \o ToStr(Get(pt, "1")) \o ")"
                    ELSE "POINT(" \o ToStr(Get(pt, "x")) \o "," \o ToStr(Get(pt, "y")) \o ")"
    ELSE IF Truthy(Get(value, "$field")) /\ isUpdate THEN iden(Get(value, "$field"))
    ELSE val(value)

getSetValues(data, isUpdate) ==
    LET es == Entries(data)
    IN  JoinStr([i \in 1..Len(es) |->
                    iden(Str(es[i][1])) \o "=" \o SetValue(es[i][2], isUpdate)], ",")

getGroup(group) ==
    IF group.t = "string" THEN Ok(group.s)
    ELSE IF group.t = "array"
        THEN Ok(JoinStr([i \in 1..Len(group.a) |-> iden(group.a[i])], ","))
    ELSE TypeError

getOrder(order) ==
    IF order.t = "string" THEN order.s
    ELSE LET es == Entries(order)
         IN  JoinStr([i \in 1..Len(es) |->
                        IF es[i][2].t = "number" /\ es[i][2].n < 0
                            THEN iden(Str(es[i][1])) \o " DESC"
                            ELSE iden(Str(es[i][1]))], ", ")

allowedFields == {"table", "join", "distinct", "fields", "where", "limit", "offset",
                  "order", "orderBy", "group", "groupBy"}

\* the error checkParams throws, or "none"
checkParams(params, isSelectOne) ==
    LET es  == Entries(params)
        Bad(i) == IF es[i][1] \notin allowedFields
                     THEN Err("Invalid param name")
                  ELSE IF isSelectOne /\ es[i][1] = "limit"
                     THEN Err("Invalid param \"limit\" for selectOne method")
                  ELSE Ok("")
    IN  FirstErr([i \in 1..Len(es) |-> Bad(i)])

\* the queryParts of _select, joined, once every clause has been compiled
SelectText(table, isDistinct, limit, offset, sqlFields, sqlJoin, sqlWhere, sqlGroup, sqlOrder) ==
    LET Clause(keyword, sql) == IF sql = "" THEN << >>
                                ELSE IF keyword = "" THEN <<sql>> ELSE <<keyword, sql>>
    IN  JoinStr(<<"SELECT" \o (IF Truthy(isDistinct) THEN " DISTINCT" ELSE ""),
                  sqlFields, "FROM", getTable(table)>>
                \o Clause("", sqlJoin) \o Clause("WHERE", sqlWhere)
                \o Clause("GROUP BY", sqlGroup) \o Clause("ORDER BY", sqlOrder)
                \o (IF Truthy(limit)
                      THEN <<"LIMIT", IF Truthy(offset) THEN ToStr(offset) \o "," \o ToStr(limit)
                                                        ELSE ToStr(limit)>>
                      ELSE << >>),
                " ")

\* _select after its argument checks: the clauses are compiled in the order
\* fields, where, group, order, join; the first throw wins
SelectClauses(table, isDistinct, limit, offset, sqlFields, sqlWhere, sqlGroup, sqlOrder, sqlJoin) ==
    LET thrown == FirstErr(<<sqlFields, sqlWhere, sqlGroup, sqlOrder, sqlJoin>>)
    IN  IF thrown # "none" THEN Err(thrown)
        ELSE IF ~Truthy(limit) /\ Truthy(offset) THEN Err("Can't set offset without limit")
        ELSE Ok(SelectText(table, isDistinct, limit, offset, sqlFields.sql, sqlJoin.sql,
                           sqlWhere.sql, sqlGroup.sql, sqlOrder.sql))

\* MySQLEasy[_select]: the statement text handed to query(), or the error thrown
Select(table, fields, join, where, group, order, limit, offset, isDistinct) ==
    IF ~Truthy(table) THEN Err("Parameter \"table\" missing")
    ELSE IF ~IsNullish(offset) /\ offset.t # "number"
        THEN Err("Parameter \"offset\" must be a number")
    ELSE IF ~IsNullish(limit) /\ limit.t # "number"
        THEN Err("Parameter \"limit\" must be a number")
    ELSE SelectClauses(table, isDistinct, limit, offset,
                       getFields(fields),
                       getWhere(where, FALSE, FALSE),
                       IF Truthy(group) THEN getGroup(group) ELSE Ok(""),
                       IF Truthy(order) THEN Ok(getOrder(order)) ELSE Ok(""),
                       IF Truthy(join) THEN getJoins(join) ELSE Ok(""))

RECURSIVE RunLen(_)
\* length of the run of question marks s starts with
RunLen(s) == IF Len(s) > 0 /\ SubSeq(s, 1, 1) = "?" THEN 1 + RunLen(SubSeq(s, 2, Len(s))) ELSE 0

RECURSIVE Format(_, _)
\* mysql.format: placeholders ?? and ? take the values left to right
Format(sql, values) ==
    IF Len(sql) = 0 \/ Len(values) = 0 THEN sql
    ELSE LET n == RunLen(sql)
         IN  IF n = 0 THEN SubSeq(sql, 1, 1) \o Format(SubSeq(sql, 2, Len(sql)), values)
             ELSE IF n > 2 THEN SubSeq(sql, 1, n) \o Format(SubSeq(sql, n + 1, Len(sql)), values)
             ELSE (IF n = 2 THEN iden(values[1]) ELSE val(values[1]))
                     \o Format(SubSeq(sql, n + 1, Len(sql)), Tail(values))

\* the values array the driver formats with: none for null, [v] for a non-array
FormatValues(params) ==
    IF IsNullish(params) THEN << >> ELSE IF params.t = "array" THEN params.a ELSE <<params>>

Ignore(flags) == IF Truthy(flags) /\ Truthy(Get(flags, "ignore")) THEN " IGNORE" ELSE ""

Methods == {"query", "select", "selectOne", "selectExactOne",
            "insert", "update", "delete", "truncate"}

\* what reaches query(): sqlQuery and params; or the error thrown before
Sql(text, values) == [err |-> "none", sql |-> text, values |-> values]
Fail(msg)         == [err |-> msg, sql |-> "", values |-> << >>]

\* select / selectOne / selectExactOne: checkParams, then _select
PrepareSelect(checked, selected) ==
    IF checked # "none" THEN Fail(checked)
    ELSE IF selected.err # "none" THEN Fail(selected.err)
    ELSE Sql(selected.sql, << >>)

\* update, once getWhere has returned or thrown
PrepareUpdate(in, sqlWhere) ==
    IF sqlWhere.err # "none" THEN Fail(sqlWhere.err)
    ELSE Sql("UPDATE" \o Ignore(in.flags) \o " ?? SET " \o getSetValues(in.data, TRUE)
                \o (IF sqlWhere.sql # "" THEN " WHERE " \o sqlWhere.sql ELSE ""),
             <<in.table>>)

\* deleteFrom, once getWhere has returned or thrown
PrepareDelete(in, sqlWhere) ==
    IF sqlWhere.err # "none" THEN Fail(sqlWhere.err)
    ELSE Sql("DELETE FROM " \o iden(in.table) \o " WHERE " \o sqlWhere.sql, << >>)

\* What a statement method hands to query(), or the error it throws instead
Prepare(in) ==
    LET p      == in.params
        method == in.method
        isOne  == method \in {"selectOne", "selectExactOne"}
    IN  CASE method = "query" -> Sql(in.sql, FormatValues(in.values))
          [] method \in {"select", "selectOne", "selectExactOne"} ->
                PrepareSelect(checkParams(p, isOne),
                              Select(Get(p, "table"), Get(p, "fields"), Get(p, "join"),
                                     Get(p, "where"),
                                     OrElse(Get(p, "group"), Get(p, "groupBy")),
                                     OrElse(Get(p, "order"), Get(p, "orderBy")),
                                     IF isOne THEN Num(1) ELSE Get(p, "limit"),
                                     Get(p, "offset"), Get(p, "distinct")))
          [] method = "insert" ->
                Sql("INSERT" \o Ignore(in.flags) \o " INTO ?? SET "
                       \o getSetValues(in.data, FALSE), <<in.table>>)
          [] method = "update" -> PrepareUpdate(in, getWhere(in.where, FALSE, FALSE))
          [] method = "delete" -> PrepareDelete(in, getWhere(in.where, TRUE, FALSE))
          [] OTHER -> Sql("TRUNCATE ??", FormatValues(in.table))

\* the statement the driver executes: sqlQuery with its placeholders filled
Formatted(prepared) ==
    IF prepared.err # "none" THEN Err(prepared.err)
    ELSE Ok(Format(prepared.sql, prepared.values))

\* The error the method throws, or the statement the driver executes
Compile(in) == Formatted(Prepare(in))

----------------------------------------------------------------------------
(* Inputs of the statement methods *)

\* A statement call: select*(params); insert(table, data, flags);
\* update(table, data, where, flags); delete(table, where); truncate(table);
\* query(sql, values)
Input(method, params, table, data, where, flags) ==
    [method |-> method, params |-> params, table |-> table, data |-> data,
     where |-> where, flags |-> flags, sql |-> "SELECT ?", values |-> Num(1)]

Table == <<"table", Str("t")>>
ById  == Obj(<< <<"id", Num(1)>> >>)
Row   == Obj(<< <<"a", Num(1)>> >>)

\* the calls the transaction model issues: every method with arguments it
\* accepts, and select / delete with arguments they refuse
TxInputs ==
    { Input(m, Obj(<<Table, <<"where", ById>> >>), Str("t"), Row, ById, Undef) : m \in Methods }
    \cup { Input("select", Obj(<<Table, <<"offset", Num(1)>> >>), Str("t"), Row, ById, Undef),
           Input("delete", Obj(<<Table>>), Str("t"), Row, Undef, Undef) }

\* tags getWhere does not look for, and the comparisons made of them only
UnknownTags == <<"$bad", "$ne", "$raw", "$val">>

UnknownComparisons ==
    { Obj([k \in 1..Len(tags) |-> <<tags[k], Str("x")>>]) :
          tags \in { SelectSeq(UnknownTags, LAMBDA tag : tag \in chosen) :
                         chosen \in SUBSET {UnknownTags[k] : k \in 1..Len(UnknownTags)} } }

\* where mappings that hold a combinator next to something else
MixedWheres ==
    { Obj(<< <<"$or", Arr(<<ById>>)>>, <<"a", Num(1)>> >>),
      Obj(<< <<"a", Num(1)>>, <<"$and", Arr(<<ById>>)>> >>),
      Obj(<< <<"$and", Arr(<<ById>>)>>, <<"$or", Arr(<<Row>>)>> >>) }

\* field mappings: plain values, an operator, the operator $in
FieldMaps ==
    { ById,
      Obj(<< <<"a", Num(1)>>, <<"b", Obj(<< <<"$gt", Num(3)>> >>)>> >>),
      Obj(<< <<"a", Obj(<< <<"$in", Arr(<<Num(1), Num(2)>>)>> >>)>> >>) }

\* the combinators with one or two operands, the first taken from inner
Combine(inner) ==
    { Obj(<< <<tag, Arr(<<x>>)>> >>) : tag \in {"$or", "$and"}, x \in inner }
    \cup { Obj(<< <<tag, Arr(<<x, m>>)>> >>) : tag \in {"$or", "$and"}, x \in inner, m \in FieldMaps }

RECURSIVE NestedWheres(_)
\* the wheres built of field mappings with combinators nested up to depth d
NestedWheres(d) ==
    IF d = 0 THEN FieldMaps ELSE FieldMaps \cup Combine(NestedWheres(d - 1))

\* select descriptors: accepted ones and one for each thing the code refuses
SelectParams ==
    LET With(es) == Obj(<<Table>> \o es)
        Join(es) == With(<< <<"join", Obj(<< <<"table", Str("u")>> >> \o es)>> >>)
    IN  { With(<< >>),
          Obj(<< >>),
          Obj(<< <<"table", Str("")>> >>),
          Obj(<< <<"table", Null>>, <<"where", ById>> >>),
          With(<< <<"fields", Null>> >>),
          With(<< <<"fields", Num(5)>> >>),
          With(<< <<"fields", Obj(<< <<"n", Obj(<< <<"$foo", Str("x")>> >>)>> >>)>> >>),
          With(<< <<"fields", Obj(<< <<"n", Obj(<< <<"$count", Str("id")>> >>)>> >>)>> >>),
          With(<< <<"fields", Arr(<<Str("id"), Str("a.b")>>)>> >>),
          With(<< <<"where", Num(5)>> >>),
          With(<< <<"where", Obj(<< <<"a", Obj(<< >>)>> >>)>> >>),
          With(<< <<"where", Obj(<< <<"a", Obj(<< <<"$bad", Num(1)>> >>)>> >>)>> >>),
          With(<< <<"where", Obj(<< <<"$or", Arr(<<ById, Null>>)>> >>)>> >>),
          With(<< <<"where", Obj(<< <<"$or", Arr(<<ById, Str("x > 1")>>)>> >>)>> >>),
          With(<< <<"where", Obj(<< <<"a", Obj(<< <<"$gt", Num(3)>> >>)>> >>)>> >>),
          With(<< <<"where", Obj(<< <<"a", Obj(<< <<"$gt", Obj(<< >>)>> >>)>> >>)>> >>),
          With(<< <<"where", Obj(<< <<"a", Obj(<< <<"$in", Obj(<< >>)>>, <<"$lt", Num(3)>> >>)>> >>)>> >>),
          With(<< <<"where", Obj(<< <<"a", Null>>, <<"b", Str("it's")>> >>)>> >>),
          Join(<< >>),
          Join(<< <<"on", Obj(<< <<"a", Null>> >>)>> >>),
          Join(<< <<"on", Obj(<< <<"a", Obj(<< >>)>> >>)>> >>),
          Join(<< <<"on", Obj(<< <<"a", Str("b")>> >>)>>, <<"type", Str("left")>> >>),
          Join(<< <<"on", Obj(<< <<"a", Str("b")>> >>)>>, <<"type", Str("right")>> >>),
          Join(<< <<"on", Obj(<< <<"a", Str("b")>> >>)>>, <<"type", Str("full")>> >>),
          Join(<< <<"on", Obj(<< <<"a", Str("b")>> >>)>>, <<"type", Str("FULL")>> >>),
          Join(<< <<"on", Obj(<< <<"a", Str("b")>> >>)>> >>),
          With(<< <<"join", Str("JOIN u ON 1")>> >>),
          Join(<< <<"on", Str("u.id = t.id")>> >>),
          Join(<< <<"on", Obj(<< <<"$or", Arr(<<Obj(<< <<"a", Str("b")>> >>), Str("u.x > 1")>>)>> >>)>> >>),
          Join(<< <<"on", Obj(<< <<"$and", Arr(<<Obj(<< <<"a", Str("b")>> >>), Obj(<< <<"c", Null>> >>)>>)>> >>)>> >>),
          With(<< <<"offset", Num(1)>> >>),
          With(<< <<"offset", Num(0)>> >>),
          With(<< <<"limit", Num(1)>>, <<"offset", Num(2)>> >>),
          With(<< <<"limit", Num(2)>> >>),
          With(<< <<"limit", Num(0)>> >>),
          With(<< <<"limit", Num(2)>>, <<"offset", Num(0)>> >>),
          With(<< <<"limit", Num(0)>>, <<"offset", Num(1)>> >>),
          With(<< <<"offset", Str("1")>> >>),
          With(<< <<"limit", Str("1")>> >>),
          With(<< <<"foo", Num(1)>> >>),
          With(<< <<"order", Obj(<< <<"a", Num(-1)>> >>)>>, <<"groupBy", Arr(<<Str("a")>>)>>,
                  <<"distinct", Bool(TRUE)>> >>) }
        \cup { With(<< <<"where", Obj(<< <<"a", c>> >>)>> >>) : c \in UnknownComparisons }
        \cup { With(<< <<"where", w>> >>) : w \in MixedWheres }
        \cup { With(<< <<"where", w>> >>) : w \in NestedWheres(MaxNest) }
        \cup { Join(<< <<"on", Obj(<< <<"a", c>> >>)>> >>) : c \in UnknownComparisons }

\* wheres for update and delete
Wheres ==
    MixedWheres \cup
    { ById, Undef, Null, Obj(<< >>), Num(5), Str("id = 1"),
      Obj(<< <<"a", Obj(<< >>)>> >>),
      Obj(<< <<"$and", Arr(<<ById, Obj(<< <<"a", Obj(<< <<"$bad", Num(1)>> >>)>> >>)>>)>> >>),
      Obj(<< <<"a", Obj(<< <<"$in", Arr(<<Num(1), Num(2)>>)>> >>)>> >>) }
    \cup { Obj(<< <<"a", c>> >>) : c \in UnknownComparisons }

\* a string with a quote and a backquote in it
Hostile == "a'b" \o BackQuote \o "c"

\* select descriptors with the hostile string in each place that is not raw text
HostileParams ==
    LET H == Str(Hostile)
        With(es) == Obj(<<Table>> \o es)
        Where(w) == With(<< <<"where", w>> >>)
        On(w)    == With(<< <<"join", Obj(<< <<"table", H>>, <<"on", w>> >>)>> >>)
    IN  { Obj(<< <<"table", H>> >>),
          Obj(<< <<"table", Obj(<< <<Hostile, H>> >>)>> >>),
          With(<< <<"fields", Arr(<<H>>)>> >>),
          With(<< <<"fields", Obj(<< <<Hostile, H>> >>)>> >>),
          With(<< <<"fields", Obj(<< <<Hostile, Obj(<< <<"$count", H>> >>)>> >>)>> >>),
          With(<< <<"fields", Obj(<< <<"n", Obj(<< <<"$sum", Obj(<< <<"$val", H>> >>)>> >>)>> >>)>> >>),
          With(<< <<"fields", Obj(<< <<"n", Obj(<< <<"$max", Obj(<< <<"$field", H>> >>)>> >>)>> >>)>> >>),
          Where(Obj(<< <<Hostile, H>> >>)),
          Where(Obj(<< <<"a", Obj(<< <<"$like", H>>, <<"$is", H>> >>)>> >>)),
          Where(Obj(<< <<"a", Obj(<< <<"$in", Arr(<<H, Arr(<<H>>)>>)>> >>)>> >>)),
          Where(Obj(<< <<"a", Obj(<< <<"$eq", Obj(<< <<"$val", H>> >>)>> >>)>> >>)),
          Where(Obj(<< <<"a", Obj(<< <<"$gt", Obj(<< <<"$field", H>> >>)>> >>)>> >>)),
          Where(Obj(<< <<"a", Obj(<< <<"$field", H>> >>)>> >>)),
          Where(Obj(<< <<"a", Obj(<< <<"$lt", Obj(<< <<Hostile, H>> >>)>> >>)>> >>)),
          Where(Obj(<< <<"$or", Arr(<<Obj(<< <<Hostile, H>> >>)>>)>> >>)),
          On(Obj(<< <<Hostile, H>> >>)),
          On(Obj(<< <<"a", Obj(<< <<"$field", H>> >>)>> >>)),
          With(<< <<"group", Arr(<<H>>)>> >>),
          With(<< <<"orderBy", Obj(<< <<Hostile, Num(-1)>> >>)>> >>) }

\* objectData of insert and update with the hostile string in it
HostileData ==
    LET H == Str(Hostile)
    IN  { Obj(<< <<Hostile, H>> >>),
          Obj(<< <<"a", Obj(<< <<"$field", H>> >>)>> >>),
          Obj(<< <<"a", Arr(<<H>>)>> >>),
          Obj(<< <<"p", Obj(<< <<"$point", Arr(<<H, Num(2)>>)>> >>)>> >>),
          Obj(<< <<"p", Obj(<< <<"$point", Obj(<< <<"x", Num(1)>>, <<"y", H>> >>)>> >>)>> >>) }

\* the calls that carry the hostile string
HostileInputs ==
    { Input(m, p, Str("t"), Row, ById, Undef) :
          m \in {"select", "selectOne", "selectExactOne"}, p \in HostileParams }
    \cup { Input(m, Obj(<<Table>>), Str("t"), d, ById, Undef) :
              m \in {"insert", "update"}, d \in HostileData }
    \cup { Input(m, Obj(<<Table>>), Str(Hostile), Row, Obj(<< <<Hostile, Str(Hostile)>> >>), Undef) :
              m \in {"insert", "update", "delete", "truncate"} }
    \cup { [Input("query", Obj(<<Table>>), Str("t"), Row, ById, Undef)
              EXCEPT !.sql = "SELECT ?, ??", !.values = Arr(<<Str(Hostile), Str(Hostile)>>)] }

\* the calls the statement model issues
StmtInputs ==
    HostileInputs \cup
    { Input(m, p, Str("t"), Row, ById, Undef) :
          m \in {"select", "selectOne", "selectExactOne"}, p \in SelectParams }
    \cup { Input(m, Obj(<<Table>>), Str("t"), Row, w, Undef) : m \in {"update", "delete"}, w \in Wheres }
    \cup { Input(m, Obj(<<Table>>), t, d, ById, f) :
              m \in {"insert", "update", "delete", "truncate", "query"},
              t \in {Str("t"), Undef, Null, Str("")},
              d \in {Row, Obj(<< <<"p", Obj(<< <<"$point", Arr(<<Num(1), Num(2)>>)>> >>)>> >>)},
              f \in {Undef, Obj(<< <<"ignore", Bool(TRUE)>> >>)} }

----------------------------------------------------------------------------
(* Promises *)

NewCall(op, h, res, err) ==
    [op |-> op, h |-> h, at |-> status[h], res |-> res, err |-> err]

\* resolve() / reject() on a promise: only the first settlement counts.
Settle(cs, i, res, err) ==
    IF i \in 1..Len(cs) /\ cs[i].res = "pending"
        THEN [cs EXCEPT ![i] = [@ EXCEPT !.res = res, !.err = err]]
        ELSE cs

Exists(o) == o = Pool \/ (o \in Handles /\ status[o] # "none")

----------------------------------------------------------------------------
(* Initial state: a client created by createPool, nothing called yet *)

Init ==
    /\ connState = [c \in Conns |-> "free"]
    /\ txs       = << >>
    /\ status    = [h \in Handles |-> "none"]
    /\ hconn     = [o \in Objects |-> IF o = Pool THEN "pool" ELSE "null"]
    /\ profiling = [o \in Objects |-> FALSE]
    /\ pend      = {}
    /\ log       = [h \in Handles |-> << >>]
    /\ calls     = << >>
    /\ stmts     = << >>
    /\ input      \in TxInputs

----------------------------------------------------------------------------
(* createTransaction *)

CreateTransaction ==
    /\ Len(txs) < MaxTx
    /\ txs' = Append(txs, [stage |-> "getConnection", conn |-> "null"])
    /\ UNCHANGED <<connState, status, hconn, profiling, pend, log, calls, stmts, input>>

\* the pool answers getConnection with an error or with an idle connection
GetConnectionCb(h, err) ==
    /\ h \in 1..Len(txs)
    /\ txs[h].stage = "getConnection"
    /\ IF err
          THEN /\ txs' = [txs EXCEPT ![h].stage = "rejected"]
               /\ UNCHANGED connState
          ELSE \E c \in Conns :
               /\ connState[c] = "free"
               /\ connState' = [connState EXCEPT ![c] = "leased"]
               /\ txs' = [txs EXCEPT ![h] = [stage |-> "beginTransaction", conn |-> c]]
    /\ UNCHANGED <<status, hconn, profiling, pend, log, calls, stmts, input>>

\* variant: the Transaction is built around the pool
TransactionConnPool(conn) == hconn[Pool]

\* new Transaction(_private, conn): the handle's _conn
TransactionConn(conn) == conn

BeginTransactionCb(h, err) ==
    /\ h \in 1..Len(txs)
    /\ txs[h].stage = "beginTransaction"
    /\ IF err
          THEN /\ txs' = [txs EXCEPT ![h].stage = "rejected"]
               /\ UNCHANGED <<status, hconn, profiling>>
          ELSE /\ txs' = [txs EXCEPT ![h].stage = "resolved"]
               /\ status' = [status EXCEPT ![h] = "pending"]
               /\ hconn' = [hconn EXCEPT ![h] = TransactionConn(txs[h].conn)]
               /\ profiling' = [profiling EXCEPT ![h] = profiling[Pool]]
    /\ UNCHANGED <<connState, pend, log, calls, stmts, input>>

----------------------------------------------------------------------------
(* Transaction.commit / Transaction.rollback *)

\* ops: "commit", "rollback", "release", "destroy" are calls on the connection;
\* "commit:ok", "commit:err", "rollback:ok", "rollback:err" are the driver's answers
Did(h, ops, conn) ==
    [log EXCEPT ![h] = @ \o [i \in 1..Len(ops) |-> [op |-> ops[i], conn |-> conn]]]

\* --- commit(), branch "if (this._conn)" ---

\* variant: the handle keeps its connection after commit()
CommitOwnedKeepsConn(h) ==
    /\ status' = [status EXCEPT ![h] = "committing"]
    /\ log' = Did(h, <<"commit">>, hconn[h])
    /\ pend' = pend \cup {[h |-> h, kind |-> "commit", conn |-> hconn[h],
                            call |-> Len(calls) + 1]}
    /\ calls' = Append(calls, NewCall("commit", h, "pending", "none"))
    /\ UNCHANGED hconn

CommitOwned(h) ==
    /\ hconn' = [hconn EXCEPT ![h] = "null"]
    /\ status' = [status EXCEPT ![h] = "committing"]
    /\ log' = Did(h, <<"commit">>, hconn[h])
    /\ pend' = pend \cup {[h |-> h, kind |-> "commit", conn |-> hconn[h],
                            call |-> Len(calls) + 1]}
    /\ calls' = Append(calls, NewCall("commit", h, "pending", "none"))

\* --- commit(), branches "else if (this.status === 'rejected')" and "else" ---

\* variant: no look at the status, the call always resolves
CommitDetachedNoStateCheck(h) ==
    /\ calls' = Append(calls, NewCall("commit", h, "fulfilled", "none"))
    /\ UNCHANGED <<hconn, status, log, pend>>

CommitDetached(h) ==
    /\ calls' = Append(calls,
                    IF status[h] = "rejected"
                       THEN NewCall("commit", h, "rejected", "Already rejected")
                       ELSE NewCall("commit", h, "fulfilled", "none"))
    /\ UNCHANGED <<hconn, status, log, pend>>

Commit(h) ==
    /\ Exists(h) /\ h # Pool
    /\ Len(calls) < MaxCalls
    /\ IF hconn[h] # "null" THEN CommitOwned(h) ELSE CommitDetached(h)
    /\ UNCHANGED <<connState, txs, profiling, stmts, input>>

\* --- the callback given to conn.commit, branch "if (err)" ---

\* variant: the connection goes back to the pool without a rollback
CommitFailedNoRollback(p) ==
    /\ status' = [status EXCEPT ![p.h] = "rejected"]
    /\ log' = Did(p.h, <<"commit:err", "release">>, p.conn)
    /\ connState' = [connState EXCEPT ![p.conn] = "free"]
    /\ pend' = pend \ {p}
    /\ calls' = Settle(calls, p.call, "rejected", "CommitError")

CommitFailed(p) ==
    /\ status' = [status EXCEPT ![p.h] = "rejected"]
    /\ log' = Did(p.h, <<"commit:err", "rollback">>, p.conn)
    /\ pend' = (pend \ {p}) \cup
                  {[h |-> p.h, kind |-> "rollback", conn |-> p.conn, call |-> 0]}
    /\ calls' = Settle(calls, p.call, "rejected", "CommitError")
    /\ UNCHANGED connState

\* --- the callback given to conn.commit, branch "else" ---

\* variant: the connection is not released after a successful commit
CommitSucceededNoRelease(p) ==
    /\ status' = [status EXCEPT ![p.h] = "committed"]
    /\ log' = Did(p.h, <<"commit:ok">>, p.conn)
    /\ pend' = pend \ {p}
    /\ calls' = Settle(calls, p.call, "fulfilled", "none")
    /\ UNCHANGED connState

CommitSucceeded(p) ==
    /\ status' = [status EXCEPT ![p.h] = "committed"]
    /\ log' = Did(p.h, <<"commit:ok", "release">>, p.conn)
    /\ connState' = [connState EXCEPT ![p.conn] = "free"]
    /\ pend' = pend \ {p}
    /\ calls' = Settle(calls, p.call, "fulfilled", "none")

CommitCb(p, err) ==
    /\ p \in pend /\ p.kind = "commit"
    /\ IF err THEN CommitFailed(p) ELSE CommitSucceeded(p)
    /\ UNCHANGED <<txs, hconn, profiling, stmts, input>>

\* --- rollback(), branch "if (this._conn)" ---

\* variant: the handle keeps its connection after rollback()
RollbackOwnedKeepsConn(h) ==
    /\ status' = [status EXCEPT ![h] = "rejected"]
    /\ log' = Did(h, <<"rollback">>, hconn[h])
    /\ pend' = pend \cup {[h |-> h, kind |-> "rollback", conn |-> hconn[h],
                            call |-> Len(calls) + 1]}
    /\ calls' = Append(calls, NewCall("rollback", h, "pending", "none"))
    /\ UNCHANGED hconn

RollbackOwned(h) ==
    /\ status' = [status EXCEPT ![h] = "rejected"]
    /\ hconn' = [hconn EXCEPT ![h] = "null"]
    /\ log' = Did(h, <<"rollback">>, hconn[h])
    /\ pend' = pend \cup {[h |-> h, kind |-> "rollback", conn |-> hconn[h],
                            call |-> Len(calls) + 1]}
    /\ calls' = Append(calls, NewCall("rollback", h, "pending", "none"))

\* --- rollback(), branch "else" ---

\* variant: rollback() on a rejected handle fails the way commit() does
RollbackDetachedThrows(h) ==
    /\ calls' = Append(calls,
                    IF status[h] = "rejected"
                       THEN NewCall("rollback", h, "rejected", "Already rejected")
                       ELSE NewCall("rollback", h, "fulfilled", "none"))
    /\ UNCHANGED <<hconn, status, log, pend>>

\* variant: without this._conn the rollback goes to the connection the handle had
RollbackDetachedIssues(h) ==
    /\ log' = Did(h, <<"rollback">>, txs[h].conn)
    /\ pend' = pend \cup {[h |-> h, kind |-> "rollback", conn |-> txs[h].conn,
                            call |-> Len(calls) + 1]}
    /\ calls' = Append(calls, NewCall("rollback", h, "pending", "none"))
    /\ UNCHANGED <<hconn, status>>

\* variant: the status is set before the look at this._conn
RollbackDetachedRejects(h) ==
    /\ status' = [status EXCEPT ![h] = "rejected"]
    /\ calls' = Append(calls, NewCall("rollback", h, "fulfilled", "none"))
    /\ UNCHANGED <<hconn, log, pend>>

RollbackDetached(h) ==
    /\ calls' = Append(calls, NewCall("rollback", h, "fulfilled", "none"))
    /\ UNCHANGED <<hconn, status, log, pend>>

Rollback(h) ==
    /\ Exists(h) /\ h # Pool
    /\ Len(calls) < MaxCalls
    /\ IF hconn[h] # "null" THEN RollbackOwned(h) ELSE RollbackDetached(h)
    /\ UNCHANGED <<connState, txs, profiling, stmts, input>>

\* variant: rollback() passes the driver's error on to its caller
RollbackCbSurfaces(p, err) ==
    /\ p \in pend /\ p.kind = "rollback"
    /\ pend' = pend \ {p}
    /\ IF err
          THEN /\ log' = Did(p.h, <<"rollback:err", "destroy">>, p.conn)
               /\ connState' = [connState EXCEPT ![p.conn] = "destroyed"]
               /\ calls' = Settle(calls, p.call, "rejected", "RollbackError")
          ELSE /\ log' = Did(p.h, <<"rollback:ok", "release">>, p.conn)
               /\ connState' = [connState EXCEPT ![p.conn] = "free"]
               /\ calls' = Settle(calls, p.call, "fulfilled", "none")
    /\ UNCHANGED <<txs, status, hconn, profiling, stmts, input>>

\* the callback given to conn.rollback, by commit() (call = 0: no promise
\* waits for it) or by rollback()
RollbackCb(p, err) ==
    /\ p \in pend /\ p.kind = "rollback"
    /\ pend' = pend \ {p}
    /\ IF err
          THEN /\ log' = Did(p.h, <<"rollback:err", "destroy">>, p.conn)
               /\ connState' = [connState EXCEPT ![p.conn] = "destroyed"]
          ELSE /\ log' = Did(p.h, <<"rollback:ok", "release">>, p.conn)
               /\ connState' = [connState EXCEPT ![p.conn] = "free"]
    /\ calls' = Settle(calls, p.call, "fulfilled", "none")
    /\ UNCHANGED <<txs, status, hconn, profiling, stmts, input>>

----------------------------------------------------------------------------
(* Statements: MySQLEasy.query and the methods that end in it *)

\* the commit() and rollback() calls made on object o so far
CallsOn(o) == Cardinality({k \in 1..Len(calls) : calls[k].h = o})

\* variant: without a connection of its own the statement goes to the pool
queryFallsBack(o, method, sql) ==
    [method |-> method, via |-> o, threw |-> FALSE, sql |-> sql,
     target |-> IF hconn[o] = "null" THEN hconn[Pool] ELSE hconn[o],
     flight |-> "inflight", promise |-> "pending",
     err |-> "none", prof |-> profiling[o], timer |-> "none", hook |-> 0,
     dispatches |-> 1, value |-> "none", rows |-> -1, after |-> CallsOn(o)]

\* MySQLEasy.query on object o: the promise it returns and the driver call it makes.
\* With _conn null the executor throws and the promise rejects without a dispatch.
\* dispatches counts the _conn.query calls made for the statement; rows is the
\* number of rows of the driver's result (-1: none); value is what the promise
\* of the method was fulfilled with; after is the number of commit() and
\* rollback() calls made on o before the statement.
query(o, method, sql) ==
    IF hconn[o] = "null"
        THEN [method |-> method, via |-> o, threw |-> FALSE, sql |-> sql,
              target |-> "null", flight |-> "none", promise |-> "rejected",
              err |-> "TypeError", prof |-> profiling[o], timer |-> "none", hook |-> 0,
              dispatches |-> 0, value |-> "none", rows |-> -1, after |-> CallsOn(o)]
        ELSE [method |-> method, via |-> o, threw |-> FALSE, sql |-> sql,
              target |-> hconn[o], flight |-> "inflight", promise |-> "pending",
              err |-> "none", prof |-> profiling[o], timer |-> "none", hook |-> 0,
              dispatches |-> 1, value |-> "none", rows |-> -1, after |-> CallsOn(o)]

\* the method threw before it returned a promise
Thrown(o, method, err) ==
    [method |-> method, via |-> o, threw |-> TRUE, sql |-> "",
     target |-> "null", flight |-> "none", promise |-> "none",
     err |-> err, prof |-> profiling[o], timer |-> "none", hook |-> 0,
     dispatches |-> 0, value |-> "none", rows |-> -1, after |-> CallsOn(o)]

\* variant: the statement goes to the driver before the arguments are checked
IssueDispatchFirst(o, method, c) ==
    IF c.err # "none"
        THEN [query(o, method, c.sql) EXCEPT !.threw = TRUE, !.err = c.err]
        ELSE query(o, method, c.sql)

\* a statement method: it throws, or it ends in this.query(...)
Issue(o, method, c) ==
    IF c.err # "none" THEN Thrown(o, method, c.err) ELSE query(o, method, c.sql)

Statement(o) ==
    /\ Exists(o)
    /\ Len(stmts) < MaxStmts
    /\ stmts' = Append(stmts, Issue(o, input.method, Compile(input)))
    /\ UNCHANGED <<connState, txs, status, hconn, profiling, pend, log, calls, input>>

\* variant: selectExactOne treats an empty result as selectOne does
OutcomeNullForNone(method, err, n) ==
    IF err THEN [promise |-> "rejected", err |-> "QueryError", value |-> "none", rows |-> -1]
    ELSE IF method \in {"selectOne", "selectExactOne"}
        THEN [promise |-> "fulfilled", err |-> "none",
              value |-> IF n = 0 THEN "null" ELSE "first row", rows |-> n]
    ELSE [promise |-> "fulfilled", err |-> "none", value |-> "rows", rows |-> n]

\* How the promise the method returned settles when the driver answers with an
\* error or with n rows: query() rejects with err or resolves with the result;
\* selectOne and selectExactOne chain a then() on it that takes items[0]
Outcome(method, err, n) ==
    IF err THEN [promise |-> "rejected", err |-> "QueryError", value |-> "none", rows |-> -1]
    ELSE IF method = "selectOne"
        THEN [promise |-> "fulfilled", err |-> "none",
              value |-> IF n = 0 THEN "null" ELSE "first row", rows |-> n]
    ELSE IF method = "selectExactOne"
        THEN IF n = 0
                THEN [promise |-> "rejected", err |-> "Record not found", value |-> "none",
                      rows |-> n]
                ELSE [promise |-> "fulfilled", err |-> "none", value |-> "first row", rows |-> n]
    ELSE [promise |-> "fulfilled", err |-> "none", value |-> "rows", rows |-> n]

\* the statement record once the driver has answered
Answered(s, out, timer) ==
    [s EXCEPT !.flight = "answered", !.timer = timer, !.promise = out.promise,
              !.err = out.err, !.value = out.value, !.rows = out.rows]

\* variant: the hook is called in the callback, ahead of resolve / reject
QueryCbHookInline(i, err) ==
    /\ i \in 1..Len(stmts)
    /\ stmts[i].flight = "inflight"
    /\ \E n \in 0..MaxRows :
          stmts' = [stmts EXCEPT ![i] =
                      [Answered(@, Outcome(stmts[i].method, err, n),
                                IF stmts[i].prof THEN "fired" ELSE "none")
                          EXCEPT !.hook = IF stmts[i].prof /\ profiling[stmts[i].via]
                                             THEN @ + 1 ELSE @]]
    /\ UNCHANGED <<connState, txs, status, hconn, profiling, pend, log, calls, input>>

\* variant: a statement the driver failed is sent to the driver once more
QueryCbRetry(i, err) ==
    /\ i \in 1..Len(stmts)
    /\ stmts[i].flight = "inflight"
    /\ \E n \in 0..MaxRows :
          stmts' = [stmts EXCEPT ![i] =
                      IF err /\ stmts[i].dispatches < 2
                         THEN [@ EXCEPT !.dispatches = @ + 1]
                         ELSE Answered(@, Outcome(stmts[i].method, err, n),
                                       IF stmts[i].prof THEN "scheduled" ELSE "none")]
    /\ UNCHANGED <<connState, txs, status, hconn, profiling, pend, log, calls, input>>

\* the callback given to _conn.query: the driver answers with its error
\* ("QueryError") or with a result of n rows
QueryCb(i, err) ==
    /\ i \in 1..Len(stmts)
    /\ stmts[i].flight = "inflight"
    /\ \E n \in 0..MaxRows :
          stmts' = [stmts EXCEPT ![i] =
                      Answered(@, Outcome(stmts[i].method, err, n),
                               IF stmts[i].prof THEN "scheduled" ELSE "none")]
    /\ UNCHANGED <<connState, txs, status, hconn, profiling, pend, log, calls, input>>

\* the function given to setTimeout(..., 0)
ProfilingTimer(i) ==
    /\ i \in 1..Len(stmts)
    /\ stmts[i].timer = "scheduled"
    /\ stmts' = [stmts EXCEPT ![i] =
                    [@ EXCEPT !.timer = "fired",
                              !.hook  = IF profiling[stmts[i].via] THEN @ + 1 ELSE @]]
    /\ UNCHANGED <<connState, txs, status, hconn, profiling, pend, log, calls, input>>

EnableProfiling(o) ==
    /\ Exists(o)
    /\ ~profiling[o]
    /\ profiling' = [profiling EXCEPT ![o] = TRUE]
    /\ UNCHANGED <<connState, txs, status, hconn, pend, log, calls, stmts, input>>

DisableProfiling(o) ==
    /\ Exists(o)
    /\ profiling[o]
    /\ profiling' = [profiling EXCEPT ![o] = FALSE]
    /\ UNCHANGED <<connState, txs, status, hconn, pend, log, calls, stmts, input>>

----------------------------------------------------------------------------

Next ==
    \/ CreateTransaction
    \/ \E h \in Handles, err \in BOOLEAN : GetConnectionCb(h, err)
    \/ \E h \in Handles, err \in BOOLEAN : BeginTransactionCb(h, err)
    \/ \E h \in Handles : Commit(h)
    \/ \E h \in Handles : Rollback(h)
    \/ \E p \in pend, err \in BOOLEAN : CommitCb(p, err)
    \/ \E p \in pend, err \in BOOLEAN : RollbackCb(p, err)
    \/ \E o \in Objects : Statement(o)
    \/ \E i \in 1..MaxStmts, err \in BOOLEAN : QueryCb(i, err)
    \/ \E i \in 1..MaxStmts : ProfilingTimer(i)
    \/ \E o \in Objects : EnableProfiling(o)
    \/ \E o \in Objects : DisableProfiling(o)

Spec == Init /\ [][Next]_vars

----------------------------------------------------------------------------
(* The statement methods of the pool client alone, over many inputs *)

InitStmt ==
    /\ connState = [c \in Conns |-> "free"]
    /\ txs       = << >>
    /\ status    = [h \in Handles |-> "none"]
    /\ hconn     = [o \in Objects |-> IF o = Pool THEN "pool" ELSE "null"]
    /\ profiling = [o \in Objects |-> FALSE]
    /\ pend      = {}
    /\ log       = [h \in Handles |-> << >>]
    /\ calls     = << >>
    /\ stmts     = << >>
    /\ input     \in StmtInputs

NextStmt ==
    \/ Statement(Pool)
    \/ \E i \in 1..MaxStmts, err \in BOOLEAN : QueryCb(i, err)
    \/ \E i \in 1..MaxStmts : ProfilingTimer(i)
    \/ EnableProfiling(Pool)
    \/ DisableProfiling(Pool)

SpecStmt == InitStmt /\ [][NextStmt]_vars

----------------------------------------------------------------------------
(* Vocabulary of the properties *)

Count(h, op) == Cardinality({i \in 1..Len(log[h]) : log[h][i].op = op})

\* how often the handle's connection was released or destroyed
HandBacks(h) == Count(h, "release") + Count(h, "destroy")

\* a driver callback of the handle is still to be answered
InFlight(h) == \E p \in pend : p.h = h

Has(h, op) == Count(h, op) > 0

\* the connection createTransaction checked out for handle h
Owned(h) == txs[h].conn

Entry(op, conn) == [op |-> op, conn |-> conn]

Settled == {"fulfilled", "rejected"}

CallsOf(op, at) == {k \in 1..Len(calls) : calls[k].op = op /\ calls[k].at = at}

----------------------------------------------------------------------------
(* Transaction lifecycle *)

\* C1: whatever commit() and rollback() calls are made on a handle, in whatever
\* order the driver answers, its connection is released or destroyed at most
\* once in total (so never both, never twice), it is the connection that was
\* checked out for the handle, and once the driver has answered every callback
\* issued for the handle it has been handed back exactly once.
C1_HandedBackExactlyOnce ==
    \A h \in Handles :
        /\ HandBacks(h) <= 1
        /\ \A i \in 1..Len(log[h]) : log[h][i].conn = Owned(h)
        /\ (log[h] # << >> /\ ~InFlight(h)) => HandBacks(h) = 1

C1_Witness ==
    \E h \in Handles :
        /\ Len(calls) = 2 /\ calls[1].op # calls[2].op
        /\ calls[1].h = h /\ calls[2].h = h
        /\ ~InFlight(h) /\ HandBacks(h) = 1

\* C2: when the driver fails the commit issued by commit() on a pending handle,
\* a rollback is issued next on the same connection, the status is 'rejected',
\* the commit() promise is rejected with the commit error, and the connection
\* is released if that rollback succeeds and destroyed, not released, if it fails.
C2_FailedCommitRollsBack ==
    \A h \in Handles :
        Has(h, "commit:err") =>
            /\ SubSeq(log[h], 1, 3) = <<Entry("commit", Owned(h)), Entry("commit:err", Owned(h)),
                                        Entry("rollback", Owned(h))>>
            /\ status[h] = "rejected"
            /\ \E k \in CallsOf("commit", "pending") :
                  calls[k].h = h /\ calls[k].res = "rejected" /\ calls[k].err = "CommitError"
            /\ Has(h, "rollback:ok") => Count(h, "release") = 1 /\ Count(h, "destroy") = 0
            /\ Has(h, "rollback:err") => Count(h, "destroy") = 1 /\ Count(h, "release") = 0

C2_Witness ==
    \E h \in Handles : Has(h, "commit:err") /\ Has(h, "rollback:err") /\ Has(h, "destroy")

\* C3: commit() on a pending handle puts the status to 'committing' and issues
\* one commit on the owned connection; when the driver reports success the
\* status is 'committed', the connection has been released and not destroyed,
\* no rollback was issued, and the promise of that commit() is fulfilled.
C3_SuccessfulCommit ==
    \A k \in CallsOf("commit", "pending") :
        LET h == calls[k].h
        IN  /\ Count(h, "commit") = 1
            /\ log[h][1] = Entry("commit", Owned(h))
            /\ (\E p \in pend : p.h = h /\ p.kind = "commit") =>
                  status[h] = "committing" /\ calls[k].res = "pending"
            /\ Has(h, "commit:ok") =>
                  /\ status[h] = "committed"
                  /\ log[h] = <<Entry("commit", Owned(h)), Entry("commit:ok", Owned(h)),
                                Entry("release", Owned(h))>>
                  /\ calls[k].res = "fulfilled"

C3_Witness ==
    \E k \in CallsOf("commit", "pending") :
        Has(calls[k].h, "commit:ok") /\ calls[k].res = "fulfilled"

\* C4: rollback() on a pending handle issues one rollback on the owned
\* connection and sets the status to 'rejected'; the connection is released if
\* the driver's rollback succeeds and destroyed if it fails; no commit is
\* issued on the connection, whatever is called afterwards.
C4_RollbackFromPending ==
    \A k \in CallsOf("rollback", "pending") :
        LET h == calls[k].h
        IN  /\ log[h][1] = Entry("rollback", Owned(h))
            /\ Count(h, "rollback") = 1
            /\ Count(h, "commit") = 0
            /\ status[h] = "rejected"
            /\ Has(h, "rollback:ok") =>
                  log[h] = <<Entry("rollback", Owned(h)), Entry("rollback:ok", Owned(h)),
                             Entry("release", Owned(h))>>
            /\ Has(h, "rollback:err") =>
                  log[h] = <<Entry("rollback", Owned(h)), Entry("rollback:err", Owned(h)),
                             Entry("destroy", Owned(h))>>

C4_Witness ==
    /\ Len(calls) = 2
    /\ calls[1].op = "rollback" /\ calls[1].at = "pending"
    /\ calls[2].op = "commit" /\ calls[2].h = calls[1].h
    /\ Has(calls[1].h, "destroy")

\* a step in which commit() / rollback() is called on handle h
Calls(op, h) ==
    /\ Len(calls') = Len(calls) + 1
    /\ calls'[Len(calls')].op = op
    /\ calls'[Len(calls')].h = h

\* C5: a commit() called when the status is 'rejected' is rejected with the
\* transaction-state error, a commit() called when the status is 'committed'
\* is fulfilled, and neither call issues anything on the connection or changes
\* the status.
C5_Terminality ==
    /\ [](\A k \in 1..Len(calls) :
            calls[k].op = "commit" =>
                /\ calls[k].at = "rejected" =>
                      calls[k].res = "rejected" /\ calls[k].err = "Already rejected"
                /\ calls[k].at = "committed" =>
                      calls[k].res = "fulfilled" /\ calls[k].err = "none")
    /\ [][\A h \in Handles :
            (status[h] \in {"rejected", "committed"} /\ Calls("commit", h)) =>
                /\ log' = log /\ pend' = pend /\ status' = status /\ hconn' = hconn]_vars

C5_Witness ==
    /\ CallsOf("commit", "rejected") # {}
    /\ \A k \in CallsOf("commit", "rejected") : calls[k].err = "Already rejected"

\* C6 as stated: every commit() and every rollback() called on a handle whose
\* status is 'rejected' fails with the transaction-state error.
C6_Original ==
    \A k \in 1..Len(calls) :
        calls[k].at = "rejected" =>
            calls[k].res = "rejected" /\ calls[k].err = "Already rejected"

\* C6 amended: on a handle whose status is 'rejected', commit() fails with the
\* transaction-state error, while rollback() is fulfilled with no error.
C6_RejectedHandle ==
    \A k \in 1..Len(calls) :
        calls[k].at = "rejected" =>
            /\ calls[k].op = "commit" =>
                  calls[k].res = "rejected" /\ calls[k].err = "Already rejected"
            /\ calls[k].op = "rollback" =>
                  calls[k].res = "fulfilled" /\ calls[k].err = "none"

C6_Witness ==
    \E k \in CallsOf("rollback", "rejected") : calls[k].res = "fulfilled"

Transitions ==
    { <<"none", "pending">>, <<"pending", "committing">>, <<"committing", "committed">>,
      <<"committing", "rejected">>, <<"pending", "rejected">> }

\* C7: the status of a handle is always one of pending, committing, committed,
\* rejected (a handle that does not exist yet has none); a new handle is
\* pending; the status only ever moves pending -> committing,
\* committing -> committed, committing -> rejected or pending -> rejected, so
\* committed and rejected are never left.
C7_StatusMachine ==
    /\ [](\A h \in Handles : status[h] \in Statuses \cup {"none"})
    /\ [][\A h \in Handles :
            status'[h] # status[h] => <<status[h], status'[h]>> \in Transitions]_vars

C7_Witness ==
    \E h \in Handles :
        /\ status[h] = "committed"
        /\ \E k \in CallsOf("rollback", "committed") : calls[k].h = h

----------------------------------------------------------------------------
(* Statements *)

\* C8: a statement issued through a Transaction, by whichever method, reaches
\* the driver only on the connection createTransaction checked out for that
\* Transaction: never on the pool, never on another connection.
C8_StatementsOnOwnedConnection ==
    \A i \in 1..Len(stmts) :
        (stmts[i].via # Pool /\ stmts[i].flight # "none") =>
            /\ stmts[i].target = Owned(stmts[i].via)
            /\ stmts[i].target \in Conns

C8_Witness ==
    \E i \in 1..Len(stmts) :
        /\ stmts[i].via # Pool /\ stmts[i].flight = "answered"
        /\ stmts[i].method = "select"

\* C9: a select, selectOne, selectExactOne, insert, update or delete call whose
\* arguments the code refuses throws before it returns a promise, and the
\* driver is not called for it: nothing is dispatched, nothing is in flight.
C9_ValidationBeforeDispatch ==
    \A i \in 1..Len(stmts) :
        /\ stmts[i].threw <=> Compile(input).err # "none"
        /\ stmts[i].threw =>
              /\ stmts[i].promise = "none"
              /\ stmts[i].flight = "none"
              /\ stmts[i].target = "null"
              /\ stmts[i].err = Compile(input).err

C9_Witness ==
    \E i \in 1..Len(stmts) :
        /\ stmts[i].threw
        /\ stmts[i].method = "select"
        /\ stmts[i].err = "Can't set offset without limit"

\* C10: the profiling hook of a statement runs at most once, only for a
\* statement dispatched with a hook configured, and only in a step that finds
\* the statement's promise already settled and leaves it as it is; the promise
\* is settled as soon as the driver has answered, whether or not the hook has
\* run yet.
C10_HookAfterSettlement ==
    /\ [](\A i \in 1..Len(stmts) :
            /\ stmts[i].hook <= 1
            /\ stmts[i].hook > 0 => stmts[i].prof /\ stmts[i].promise \in Settled
            /\ stmts[i].flight = "answered" => stmts[i].promise \in Settled)
    /\ [][\A i \in 1..Len(stmts) :
            stmts'[i].hook > stmts[i].hook =>
                stmts[i].promise \in Settled /\ stmts'[i].promise = stmts[i].promise]_vars

C10_Witness ==
    \E i \in 1..Len(stmts) : stmts[i].hook = 1 /\ stmts[i].promise = "rejected"

\* C11: a statement method called on an object that holds a connection makes
\* exactly one _conn.query call for the statement, before and after the driver
\* answers, with or without a profiling hook; once the driver has answered, the
\* promise is rejected with the driver's error if the driver reported one and
\* fulfilled otherwise, and the promise of query() is fulfilled with the
\* driver's result.
C11_OneDispatchNoRetry ==
    \A i \in 1..Len(stmts) :
        (~stmts[i].threw /\ stmts[i].target # "null") =>
            /\ stmts[i].dispatches = 1
            /\ stmts[i].flight \in {"inflight", "answered"}
            /\ stmts[i].flight = "inflight" => stmts[i].promise = "pending"
            /\ (stmts[i].flight = "answered" /\ stmts[i].method = "query") =>
                  \/ stmts[i].promise = "rejected" /\ stmts[i].err = "QueryError"
                        /\ stmts[i].value = "none" /\ stmts[i].rows = -1
                  \/ stmts[i].promise = "fulfilled" /\ stmts[i].err = "none"
                        /\ stmts[i].value = "rows" /\ stmts[i].rows \in 0..MaxRows

C11_Witness ==
    \E i \in 1..Len(stmts) :
        /\ stmts[i].method = "query" /\ stmts[i].prof
        /\ stmts[i].flight = "answered" /\ stmts[i].promise = "rejected"
        /\ stmts[i].err = "QueryError" /\ stmts[i].dispatches = 1

----------------------------------------------------------------------------
(* Validation of the statement arguments *)

\* the statement call i was refused: it threw, no promise, no driver call
Refused(i) ==
    /\ stmts[i].threw
    /\ stmts[i].promise = "none"
    /\ stmts[i].flight = "none"
    /\ stmts[i].dispatches = 0

\* null, undefined or a mapping without entries
IsEmptyWhere(where) == IsNullish(where) \/ (where.t = "object" /\ Len(where.e) = 0)

\* C12 as stated: a delete whose where is null, undefined or the empty mapping
\* is refused with a validation error and no DELETE statement reaches the driver.
C12_EmptyWhereRefused ==
    \A i \in 1..Len(stmts) :
        (stmts[i].method = "delete" /\ IsEmptyWhere(input.where)) => Refused(i)

\* C13 as stated: a select whose descriptor gives a numeric offset, 0 included,
\* and no limit is refused with a validation error and nothing is dispatched.
C13_OffsetWithoutLimit ==
    \A i \in 1..Len(stmts) :
        ( /\ stmts[i].method = "select"
          /\ Get(input.params, "offset").t = "number"
          /\ IsNullish(Get(input.params, "limit")) ) => Refused(i)

\* s ends with suffix
EndsWith(s, suffix) ==
    Len(s) >= Len(suffix) /\ SubSeq(s, Len(s) - Len(suffix) + 1, Len(s)) = suffix

\* the descriptor of the call gives a table and nothing but limit and offset
OnlyLimitAndOffset ==
    /\ Truthy(Get(input.params, "table"))
    /\ \A k \in 1..Len(input.params.e) : input.params.e[k][1] \in {"table", "limit", "offset"}
    /\ Get(input.params, "limit").t \in {"undefined", "number"}
    /\ Get(input.params, "offset").t \in {"undefined", "number"}

\* the clause the statement has to end with: LIMIT n, or LIMIT o,n
LimitClause(offset, limit) ==
    " LIMIT " \o (IF offset.t = "number" THEN ToStr(offset) \o "," ELSE "") \o ToStr(limit)

\* C14 as stated: for every numeric limit n and offset o, 0 included, a select
\* with limit n ends in LIMIT n when no offset is given and in LIMIT o,n when
\* one is; selectOne and selectExactOne end in LIMIT 1, or LIMIT o,1 with an offset.
C14_LimitRendering ==
    \A i \in 1..Len(stmts) :
        LET limit  == Get(input.params, "limit")
            offset == Get(input.params, "offset")
        IN  /\ (stmts[i].method = "select" /\ OnlyLimitAndOffset /\ limit.t = "number") =>
                  ~stmts[i].threw /\ EndsWith(stmts[i].sql, LimitClause(offset, limit))
            /\ ( /\ stmts[i].method \in {"selectOne", "selectExactOne"}
                 /\ OnlyLimitAndOffset /\ limit.t = "undefined" ) =>
                  ~stmts[i].threw /\ EndsWith(stmts[i].sql, LimitClause(offset, Num(1)))

\* the table name the call was given
GivenTable ==
    IF input.method \in {"select", "selectOne", "selectExactOne"}
        THEN Get(input.params, "table") ELSE input.table

\* C15 as stated: a select, insert, update, delete or truncate call without a
\* table name (undefined, null or the empty string) is refused with a
\* validation error before anything is dispatched.
C15_MissingTableRefused ==
    \A i \in 1..Len(stmts) :
        ( /\ stmts[i].method \in Methods \ {"query"}
          /\ (IsNullish(GivenTable) \/ GivenTable = Str("")) ) => Refused(i)

\* the where descriptor of the call, and the on descriptor of its join
GivenWhere ==
    IF input.method \in {"select", "selectOne", "selectExactOne"}
        THEN Get(input.params, "where")
    ELSE IF input.method \in {"update", "delete"} THEN input.where
    ELSE Undef

GivenJoin ==
    IF input.method \in {"select", "selectOne", "selectExactOne"}
        THEN Get(input.params, "join") ELSE Undef

GivenOn == IF GivenJoin.t = "object" THEN Get(GivenJoin, "on") ELSE Undef

\* a select descriptor that gives a table and nothing but a where or a join, or
\* an update / delete call
OnlyWhereOrJoin ==
    \/ input.method \in {"update", "delete"}
    \/ /\ Truthy(Get(input.params, "table"))
       /\ \A k \in 1..Len(input.params.e) : input.params.e[k][1] \in {"table", "where", "join"}
       /\ ~(IsPresent(input.params, "where") /\ IsPresent(input.params, "join"))

\* a mapping with none of the operator tags and no $field
Exhausted(data) ==
    /\ data.t = "object"
    /\ \A k \in 1..Len(Operators) : ~IsPresent(data, Operators[k])
    /\ ~IsPresent(data, "$field")

\* a field mapping (no combinator key) one of whose comparisons is exhausted
HasExhausted(where) ==
    /\ where.t = "object"
    /\ ~IsPresent(where, "$or") /\ ~IsPresent(where, "$and")
    /\ \E k \in 1..Len(where.e) : Exhausted(where.e[k][2])

ExhaustedMessage ==
    "Where object has not contains any of $like,$eq,$gt,$gte,$lt,$lte,$in,$is,$isNot"

IsAmbiguous(where) ==
    /\ where.t = "object"
    /\ IsPresent(where, "$or") \/ IsPresent(where, "$and")
    /\ Len(where.e) > 1

\* C17 as stated: a call whose where mapping holds $or or $and together with
\* column keys, or holds both $or and $and, is refused with a validation error
\* and nothing is dispatched.
C17_AmbiguousWhereRefused ==
    \A i \in 1..Len(stmts) : IsAmbiguous(GivenWhere) => Refused(i)

RECURSIVE HasRawPredicate(_)
\* the descriptor is raw text, or a combinator with such an operand
HasRawPredicate(where) ==
    \/ where.t = "string"
    \/ /\ where.t = "object"
       /\ \E tag \in {"$or", "$and"} :
              /\ Get(where, tag).t = "array"
              /\ \E k \in 1..Len(Get(where, tag).a) : HasRawPredicate(Get(where, tag).a[k])

RECURSIVE HasBareNull(_)
\* a field mapping compares a column with null, here or in a combinator operand
HasBareNull(where) ==
    /\ where.t = "object"
    /\ \/ \E k \in 1..Len(where.e) :
              where.e[k][1] \notin {"$or", "$and"} /\ where.e[k][2].t = "null"
       \/ \E tag \in {"$or", "$and"} :
              /\ Get(where, tag).t = "array"
              /\ \E k \in 1..Len(Get(where, tag).a) : HasBareNull(Get(where, tag).a[k])

\* C18 as stated: a structured join whose on is raw text, or a combinator with
\* a raw text operand, is refused, and so is one whose on compares a column
\* with a bare null.
C18_RestrictedOn ==
    \A i \in 1..Len(stmts) :
        (GivenJoin.t = "object" /\ (HasRawPredicate(GivenOn) \/ HasBareNull(GivenOn))) =>
            Refused(i)

\* the keyword a join type given in lowercase stands for
JoinKeyword(type) ==
    IF type = Str("left") THEN "LEFT "
    ELSE IF type = Str("right") THEN "RIGHT "
    ELSE IF type = Str("full") THEN "FULL "
    ELSE ""

\* the call is a select of table t with one structured join of table u
SelectWithJoin(i) ==
    /\ stmts[i].method = "select"
    /\ OnlyWhereOrJoin
    /\ Get(input.params, "table") = Str("t")
    /\ GivenJoin.t = "object" /\ Get(GivenJoin, "table") = Str("u")

\* C19 as stated: a structured join with on {a: 'b'} and type left, right or
\* full renders LEFT, RIGHT or FULL before JOIN <table> ON <condition>, one
\* without a type renders a plain JOIN, and one without on is refused.
C19_JoinRendering ==
    \A i \in 1..Len(stmts) :
        SelectWithJoin(i) =>
            /\ ( /\ GivenOn = Obj(<< <<"a", Str("b")>> >>)
                 /\ Get(GivenJoin, "type") \in {Undef, Str("left"), Str("right"), Str("full")} ) =>
                  /\ ~stmts[i].threw
                  /\ stmts[i].sql = "SELECT * FROM " \o iden(Str("t")) \o " "
                                       \o JoinKeyword(Get(GivenJoin, "type")) \o "JOIN "
                                       \o iden(Str("u")) \o " ON "
                                       \o iden(Str("a")) \o " = " \o iden(Str("b"))
            /\ GivenOn = Undef =>
                  Refused(i) /\ stmts[i].err = "Join has not field \"on\""

\* sub occurs in s
Contains(s, sub) ==
    \E k \in 1..(Len(s) - Len(sub) + 1) : SubSeq(s, k, k + Len(sub) - 1) = sub

\* C20 as stated: a where mapping {a: {$raw: fragment}} or {a: {$val: value}}
\* is accepted: the call does not throw, and the statement dispatched holds a
\* WHERE condition on column a.
C20_RawAndValComparisons ==
    \A i \in 1..Len(stmts) :
        ( /\ OnlyWhereOrJoin
          /\ GivenWhere \in { Obj(<< <<"a", Obj(<< <<tag, Str("x")>> >>)>> >>) :
                                 tag \in {"$raw", "$val"} } ) =>
            /\ ~stmts[i].threw
            /\ stmts[i].dispatches = 1
            /\ Contains(stmts[i].sql, " WHERE " \o iden(Str("a")) \o " ")

\* a field mapping one of whose comparisons gives an operator the operand {}
HasEmptyOperand(where) ==
    /\ where.t = "object"
    /\ ~IsPresent(where, "$or") /\ ~IsPresent(where, "$and")
    /\ \E k \in 1..Len(where.e), j \in 1..Len(Operators) :
          /\ where.e[k][2].t = "object"
          /\ ~IsPresent(where.e[k][2], "$field")
          /\ Get(where.e[k][2], Operators[j]) = Obj(<< >>)

\* C21 as stated: a select whose where gives an operator an empty object as
\* operand, as in {field: {$gt: {}}}, throws, and no query reaches the driver.
C21_EmptyOperandRefused ==
    \A i \in 1..Len(stmts) :
        (stmts[i].method = "select" /\ HasEmptyOperand(GivenWhere)) => Refused(i)

----------------------------------------------------------------------------
(* Results of selectOne and selectExactOne *)

\* C22: once the driver has answered a selectExactOne, its promise is rejected
\* with the not-found error exactly when the driver returned a result of zero
\* rows, fulfilled with the first row when the result has a row, and rejected
\* with the driver's error, which is not the not-found error, when the driver
\* failed; a selectOne whose result has zero rows is fulfilled with null.
C22_ExactOne ==
    \A i \in 1..Len(stmts) :
        stmts[i].flight = "answered" =>
            /\ stmts[i].method = "selectExactOne" =>
                  /\ (stmts[i].promise = "rejected" /\ stmts[i].err = "Record not found")
                         <=> stmts[i].rows = 0
                  /\ stmts[i].rows > 0 =>
                         stmts[i].promise = "fulfilled" /\ stmts[i].value = "first row"
                  /\ stmts[i].rows = -1 =>
                         stmts[i].promise = "rejected" /\ stmts[i].err = "QueryError"
            /\ (stmts[i].method = "selectOne" /\ stmts[i].rows = 0) =>
                  stmts[i].promise = "fulfilled" /\ stmts[i].value = "null"

C22_Witness ==
    \E i \in 1..Len(stmts) :
        /\ stmts[i].method = "selectExactOne" /\ stmts[i].flight = "answered"
        /\ stmts[i].rows = 0 /\ stmts[i].err = "Record not found"

----------------------------------------------------------------------------
(* Parentheses of the compiled predicate *)

\* the deepest nesting of parentheses in s: the largest excess of opening over
\* closing parentheses in a prefix of s
ParenDepth(s) ==
    LET Sign(k) == IF SubSeq(s, k, k) = "(" THEN 1 ELSE IF SubSeq(s, k, k) = ")" THEN -1 ELSE 0
        marks   == {k \in 1..Len(s) : Sign(k) # 0}
        depths  == {Cardinality({j \in marks : j <= k /\ Sign(j) = 1})
                       - Cardinality({j \in marks : j <= k /\ Sign(j) = -1}) : k \in marks}
    IN  IF marks = {} THEN 0 ELSE CHOOSE d \in depths : \A e \in depths : e <= d

\* the number of opening parentheses in s
Opening(s) == Cardinality({k \in 1..Len(s) : SubSeq(s, k, k) = "("})

\* where is a combinator
IsCombinator(where) ==
    where.t = "object" /\ (IsPresent(where, "$or") \/ IsPresent(where, "$and"))

Operands(where) == Get(where, IF IsPresent(where, "$or") THEN "$or" ELSE "$and").a

RECURSIVE MaxOf(_)
MaxOf(ns) == IF Len(ns) = 0 THEN 0
             ELSE LET rest == MaxOf(Tail(ns)) IN IF ns[1] > rest THEN ns[1] ELSE rest

RECURSIVE SumOf(_)
SumOf(ns) == IF Len(ns) = 0 THEN 0 ELSE ns[1] + SumOf(Tail(ns))

RECURSIVE NestDepth(_)
\* how deep the combinators of where are nested
NestDepth(where) ==
    IF IsCombinator(where)
        THEN 1 + MaxOf([k \in 1..Len(Operands(where)) |-> NestDepth(Operands(where)[k])])
        ELSE 0

RECURSIVE Combinators(_)
\* how many combinators where holds
Combinators(where) ==
    IF IsCombinator(where)
        THEN 1 + SumOf([k \in 1..Len(Operands(where)) |-> Combinators(Operands(where)[k])])
        ELSE 0

RECURSIVE InLists(_)
\* how many comparisons of where use the operator $in
InLists(where) ==
    IF IsCombinator(where)
        THEN SumOf([k \in 1..Len(Operands(where)) |-> InLists(Operands(where)[k])])
        ELSE Cardinality({k \in 1..Len(where.e) :
                             where.e[k][2].t = "object" /\ IsPresent(where.e[k][2], "$in")})

RECURSIVE IsNested(_)
\* where is built of $or / $and over field mappings
IsNested(where) ==
    IF IsCombinator(where)
        THEN /\ Len(where.e) = 1
             /\ \A k \in 1..Len(Operands(where)) : IsNested(Operands(where)[k])
        ELSE where \in FieldMaps

\* the call is a select of table t whose where is built of $or / $and over
\* field mappings, and the call has been made
SelectNested(i) ==
    /\ stmts[i].method = "select"
    /\ OnlyWhereOrJoin
    /\ IsNested(GivenWhere)

----------------------------------------------------------------------------
(* Escaping *)

\* C24 as stated: a caller's string put anywhere but a raw text position, the
\* coordinates of a $point included, reaches the statement only through
\* the identifier or the literal escaper: the hostile string, which holds a
\* quote and a backquote, never stands in the statement as it was given.
C24_InjectionSafety ==
    \A i \in 1..Len(stmts) :
        (input \in HostileInputs /\ ~stmts[i].threw) =>
            /\ Contains(stmts[i].sql, "a")
            /\ ~Contains(stmts[i].sql, Hostile)

----------------------------------------------------------------------------
(* Transactions: order and interleaving *)

\* C25 as stated: whenever the promise of a commit() stands rejected with the
\* driver's commit error, the recovery rollback has been answered and the
\* connection has been released or destroyed.
C25_RecoveryBeforeRejection ==
    \A k \in 1..Len(calls) :
        (calls[k].op = "commit" /\ calls[k].res = "rejected" /\ calls[k].err = "CommitError") =>
            /\ Has(calls[k].h, "rollback:ok") \/ Has(calls[k].h, "rollback:err")
            /\ HandBacks(calls[k].h) = 1

\* C26: a statement issued through a handle on which commit() or rollback()
\* has been called is never dispatched, not to the handle's former connection
\* and not to any other; the method throws for its arguments or returns a
\* promise that is rejected.
C26_NoUseAfterHandBack ==
    \A i \in 1..Len(stmts) :
        (stmts[i].via # Pool /\ stmts[i].after > 0) =>
            /\ stmts[i].dispatches = 0
            /\ stmts[i].flight = "none"
            /\ stmts[i].target = "null"
            /\ \/ stmts[i].threw
               \/ stmts[i].promise = "rejected" /\ stmts[i].err = "TypeError"

C26_Witness ==
    \E i \in 1..Len(stmts) :
        /\ stmts[i].via # Pool /\ stmts[i].after = 1
        /\ stmts[i].method = "insert" /\ stmts[i].promise = "rejected"
        /\ \E q \in pend : q.h = stmts[i].via /\ q.kind = "commit"

\* C27 as stated: in every step in which the promise of a commit() call
\* becomes fulfilled, the status of the handle is 'committed' after the step;
\* this covers a commit() called while an earlier commit is in flight.
C27_FulfilledMeansCommitted ==
    [][\A k \in 1..Len(calls') :
          ( /\ calls'[k].op = "commit"
            /\ calls'[k].res = "fulfilled"
            /\ (k > Len(calls) \/ calls[k].res # "fulfilled") ) =>
              status'[calls'[k].h] = "committed"]_vars

\* the first commit() / rollback() call made on handle h is a rollback()
FirstCallIsRollback(h) ==
    \E k \in 1..Len(calls) :
        /\ calls[k].h = h /\ calls[k].op = "rollback"
        /\ \A j \in 1..(k - 1) : calls[j].h # h

\* the rollback in the log of h follows the driver's failure of the commit
RollbackIsRecovery(h) ==
    \E n \in 2..Len(log[h]) : log[h][n].op = "rollback" /\ log[h][n - 1].op = "commit:err"

\* C28: whatever commit() and rollback() calls are made on a handle, at most
\* one commit and at most one rollback are issued on its connection; a
\* rollback is issued only when the first call was rollback() or right after
\* the driver failed the commit; and a rollback() called while the commit is
\* in flight issues nothing and leaves the status as it is.
C28_AtMostOneOfEach ==
    /\ [](\A h \in Handles :
            /\ Count(h, "commit") <= 1
            /\ Count(h, "rollback") <= 1
            /\ Has(h, "rollback") => (FirstCallIsRollback(h) \/ RollbackIsRecovery(h))
            /\ ~(FirstCallIsRollback(h) /\ RollbackIsRecovery(h)))
    /\ [][\A h \in Handles :
            (Calls("rollback", h) /\ \E q \in pend : q.h = h /\ q.kind = "commit") =>
                log' = log /\ pend' = pend /\ status' = status /\ hconn' = hconn]_vars

C28_Witness ==
    \E h \in Handles :
        /\ Len(calls) = 2
        /\ calls[1].h = h /\ calls[1].op = "commit"
        /\ calls[2].h = h /\ calls[2].op = "rollback" /\ calls[2].at = "committing"
        /\ RollbackIsRecovery(h) /\ Count(h, "rollback") = 1

----------------------------------------------------------------------------
(* createTransaction *)

\* C29 as stated: a connection checked out by createTransaction is owned by
\* the Transaction handed to the caller or has gone back to the pool; once
\* createTransaction has rejected because beginTransaction failed, which is the
\* last thing that call does, its connection is not checked out any more.
C29_NoLeakedConnection ==
    \A h \in 1..Len(txs) :
        /\ txs[h].stage = "resolved" => Owned(h) \in Conns /\ status[h] # "none"
        /\ (txs[h].stage = "rejected" /\ txs[h].conn # "null") =>
              connState[txs[h].conn] # "leased"

----------------------------------------------------------------------------
(* rollback() *)

\* the rollback() calls made so far
RollbackCalls == {k \in 1..Len(calls) : calls[k].op = "rollback"}

\* the driver has not answered the rollback that call k issued
Awaited(k) == \E p \in pend : p.kind = "rollback" /\ p.call = k

\* C30: rollback() never rejects. Whatever the state of the handle it was called
\* in, its promise is fulfilled without an error, at once when the handle has no
\* connection and otherwise as soon as the driver has answered, also when the
\* driver's rollback failed; a connection whose rollback failed is destroyed
\* and never released.
C30_RollbackNeverRejects ==
    /\ \A k \in RollbackCalls :
          /\ calls[k].res # "rejected"
          /\ calls[k].err = "none"
          /\ calls[k].res = "pending" <=> Awaited(k)
          /\ calls[k].at # "pending" => calls[k].res = "fulfilled"
    /\ \A h \in 1..Len(txs) :
          Has(h, "rollback:err") =>
              /\ Has(h, "destroy") /\ ~Has(h, "release")
              /\ connState[Owned(h)] = "destroyed"

\* a rollback() on a pending transaction is fulfilled although the driver's
\* rollback failed and the connection was destroyed
C30_Witness ==
    \E k \in RollbackCalls :
        /\ calls[k].at = "pending" /\ calls[k].res = "fulfilled"
        /\ Has(calls[k].h, "rollback:err")
        /\ connState[Owned(calls[k].h)] = "destroyed"

====
